---- MODULE Spec2Model ----
(***************************************************************************)
(* State-machine model of the fastbuka backend: OrdersService (create,    *)
(* findAll, findOne, updateStatus), MealsService (create, update, remove)  *)
(* and MailService.sendEmail, over the orders/meals tables of the Prisma   *)
(* schema.  Every await of a handler is a separate step, so that requests  *)
(* handled concurrently interleave at the persistence calls.               *)
(***************************************************************************)
EXTENDS Integers, Sequences, FiniteSets, TLC

\* ---------------------------------------------------------------- bounds
MaxOps      == 2    \* requests started in one behaviour

\* ------------------------------------------------------- tables and enums
Procs     == {"p1", "p2"}            \* requests in flight at the same time
Customers == {"c1", "c2"}
Vendors   == {"v1", "v2"}
Users     == Customers \cup Vendors

CUSTOMER == "CUSTOMER"
VENDOR   == "VENDOR"
UserRole == {CUSTOMER, VENDOR}
\* the (id, role) pairs the services are called with: every user in its own
\* role (the pairs a token carries), and for the branches that tell a
\* mismatch, a vendor's id under the role CUSTOMER and a customer's id under
\* a role outside the enum
Principals  == (Customers \X {CUSTOMER}) \cup (Vendors \X {VENDOR})
OrderActors == Principals \cup {<<"v1", CUSTOMER>>, <<"c1", "OTHER">>}
MealActors  == (Vendors \X {VENDOR})
                   \cup {<<"c1", CUSTOMER>>, <<"v1", CUSTOMER>>}

ORDERED    == "ORDERED"
PROCESSING == "PROCESSING"
DELIVERED  == "DELIVERED"
OrderStatus == {ORDERED, PROCESSING, DELIVERED}

IN_STOCK     == "IN_STOCK"
OUT_OF_STOCK == "OUT_OF_STOCK"
MealStatus == {IN_STOCK, OUT_OF_STOCK}

\* the prices and quantities the requests carry
Prices     == {1, 2}
Quantities == {1, 2}

\* users.email (unique index users_email_key)
Email(u) == CASE u = "c1" -> "c1@mail"
              [] u = "c2" -> "c2@mail"
              [] u = "v1" -> "v1@mail"
              [] u = "v2" -> "v2@mail"

NoMeal  == [absent |-> TRUE]
NoOrder == [absent |-> TRUE]

VARIABLES
    meals,        \* meals table: set of rows
    orders,       \* orders table: set of rows
    nextMealId,   \* next meal id to allocate
    nextOrderId,  \* next order id to allocate
    now,          \* CURRENT_TIMESTAMP, in milliseconds
    transporter,  \* MailService.transporter is initialised
    req,          \* per request slot: position and locals of the handler
    last,         \* the request that finished last: its locals and outcome
    createdWith,  \* history: order id -> what its create read and asked
    started,      \* number of requests started
    users         \* users table: set of rows

vars == <<meals, orders, nextMealId, nextOrderId, now, transporter, req,
          last, createdWith, started, users>>

\* ------------------------------------------------------ persistence gateway
\* prisma.meal.findUnique({ where: { id } })
FindMeal(id) ==
    IF \E m \in meals : m.id = id
    THEN CHOOSE m \in meals : m.id = id
    ELSE NoMeal

\* prisma.order.findUnique({ where: { id } })
FindOrder(id) ==
    IF \E o \in orders : o.id = id
    THEN CHOOSE o \in orders : o.id = id
    ELSE NoOrder

\* ids a request can name: every id allocated so far and one never allocated
MealIdArgs  == 1..nextMealId
OrderIdArgs == 1..nextOrderId

\* ------------------------------------------------------------ request slots
Idle == [op |-> "none", pc |-> "idle", arg |-> [none |-> TRUE],
         meal |-> NoMeal, order |-> NoOrder, trace |-> <<>>,
         res |-> "none", val |-> <<>>]

\* slot p is at position pc of its handler, and the response of the request
\* that finished last has left
At(p, pc) == last.pc = "idle" /\ req[p].pc = pc

\* a new request takes the first free slot
CanStart(p) ==
    /\ At(p, "idle")
    /\ started < MaxOps
    /\ p = "p2" => req["p1"].pc # "idle"

\* the handler has returned or thrown: res is "ok" or the exception
Finished(r, res, val) == [r EXCEPT !.pc = "done", !.res = res, !.val = val]

\* the handler of slot p moves on with locals r; when it has finished, the
\* slot is free again and r is kept as the last finished request
Step(p, r) ==
    IF r.pc = "done"
    THEN req' = [req EXCEPT ![p] = Idle] /\ last' = r
    ELSE req' = [req EXCEPT ![p] = r] /\ UNCHANGED last

WriteEvent(what, id) ==
    [ev |-> "write", kind |-> what, to |-> "", snap |-> [id |-> id],
     result |-> "ok"]

SendEvent(kind, to, snap, result) ==
    [ev |-> "send", kind |-> kind, to |-> to, snap |-> snap,
     result |-> result]

\* ------------------------------------------------------------- MailService
\* sendEmail: false without a transporter, else true or the rethrown
\* InternalServerErrorException of a failed sendMail
SendEmail ==
    IF ~transporter THEN {"false"} ELSE {"true", "throw"}

\* ----------------------------------------------------------- OrdersService
\* a missing meal is reported as out of stock
CreateGateMissingAsOutOfStock(meal) ==
    IF meal = NoMeal THEN "BadRequest"
    ELSE IF meal.status # IN_STOCK THEN "BadRequest"
    ELSE "ok"

\* the stock guard is missing
CreateGateNoStockRule(meal) ==
    IF meal = NoMeal THEN "NotFound" ELSE "ok"

\* create: the two guards after the meal lookup
CreateGate(meal) ==
    IF meal = NoMeal THEN "NotFound"
    ELSE IF meal.status # IN_STOCK THEN "BadRequest"
    ELSE "ok"

\* the unit price alone is stored as the total
TotalPriceUnit(meal, quantity) == meal.price

\* create: const totalPrice = meal.price * quantity
TotalPrice(meal, quantity) == meal.price * quantity

\* the row is written with the status PROCESSING
OrderRowProcessing(id, dto, customerId, meal, createdAt) ==
    [id |-> id, quantity |-> dto.quantity,
     totalPrice |-> TotalPrice(meal, dto.quantity),
     customerId |-> customerId, vendorId |-> meal.vendorId,
     mealId |-> dto.mealId, status |-> PROCESSING, createdAt |-> createdAt]

\* the caller's id is stored as the vendor
OrderRowVendorIsCaller(id, dto, customerId, meal, createdAt) ==
    [id |-> id, quantity |-> dto.quantity,
     totalPrice |-> TotalPrice(meal, dto.quantity),
     customerId |-> customerId, vendorId |-> customerId,
     mealId |-> dto.mealId, status |-> ORDERED, createdAt |-> createdAt]

\* create: the row written by prisma.order.create (status and createdAt are
\* the column defaults)
OrderRow(id, dto, customerId, meal, createdAt) ==
    [id |-> id, quantity |-> dto.quantity,
     totalPrice |-> TotalPrice(meal, dto.quantity),
     customerId |-> customerId, vendorId |-> meal.vendorId,
     mealId |-> dto.mealId, status |-> ORDERED, createdAt |-> createdAt]

\* create up to its guards; arg.seen keeps, as history, the next order id
\* at the time of the meal lookup (the orders inserted before the read),
\* and after the insert arg.stored keeps the meal row that was stored then
OrdersCreateFind(p, dto, customerId) ==
    /\ CanStart(p)
    /\ LET meal == FindMeal(dto.mealId)
           gate == CreateGate(meal)
           r    == [Idle EXCEPT !.op = "create",
                                !.arg = [mealId |-> dto.mealId,
                                         quantity |-> dto.quantity,
                                         customerId |-> customerId,
                                         seen |-> nextOrderId],
                                !.meal = meal]
       IN  Step(p, IF gate = "ok"
                   THEN [r EXCEPT !.pc = "create_write"]
                   ELSE Finished(r, gate, <<>>))
    /\ started' = started + 1
    /\ UNCHANGED <<meals, orders, nextMealId, nextOrderId, now, transporter, users,
                   createdWith>>

\* the insert takes the meal's stock: it re-reads the status and marks the
\* meal OUT_OF_STOCK
OrdersCreateWriteReserving(p) ==
    /\ At(p, "create_write")
    /\ LET cur == FindMeal(req[p].arg.mealId)
       IN  IF cur = NoMeal
           THEN /\ Step(p, Finished(req[p], "InternalServerError", <<>>))
                /\ UNCHANGED <<meals, orders, nextOrderId, now, createdWith>>
           ELSE IF cur.status # IN_STOCK
           THEN /\ Step(p, Finished(req[p], "BadRequest", <<>>))
                /\ UNCHANGED <<meals, orders, nextOrderId, now, createdWith>>
           ELSE LET t   == now + 1
                    row == OrderRow(nextOrderId, req[p].arg,
                                    req[p].arg.customerId, req[p].meal, t)
                IN  /\ orders' = orders \cup {row}
                    /\ meals' = (meals \ {cur})
                           \cup {[cur EXCEPT !.status = OUT_OF_STOCK]}
                    /\ nextOrderId' = nextOrderId + 1
                    /\ now' = t
                    /\ createdWith' = createdWith @@
                           (row.id :> [price |-> req[p].meal.price,
                                       quantity |-> req[p].arg.quantity,
                                       mealVendorId |-> cur.vendorId])
                    /\ Step(p, [req[p] EXCEPT
                                 !.pc = "create_mail_customer",
                                 !.order = row,
                                 !.trace = Append(@,
                                    WriteEvent("order.create", row.id))])
    /\ UNCHANGED <<nextMealId, transporter, users, started>>

\* the insert reads the meal again: it refuses a meal that is no longer
\* IN_STOCK and prices the order with the stored price
OrdersCreateWriteRechecked(p) ==
    /\ At(p, "create_write")
    /\ LET cur == FindMeal(req[p].arg.mealId)
       IN  IF cur = NoMeal
           THEN /\ Step(p, Finished(req[p], "InternalServerError", <<>>))
                /\ UNCHANGED <<orders, nextOrderId, now, createdWith>>
           ELSE IF cur.status # IN_STOCK
           THEN /\ Step(p, Finished(req[p], "BadRequest", <<>>))
                /\ UNCHANGED <<orders, nextOrderId, now, createdWith>>
           ELSE LET t   == now + 1
                    row == OrderRow(nextOrderId, req[p].arg,
                                    req[p].arg.customerId, cur, t)
                IN  /\ orders' = orders \cup {row}
                    /\ nextOrderId' = nextOrderId + 1
                    /\ now' = t
                    /\ createdWith' = createdWith @@
                           (row.id :> [price |-> cur.price,
                                       quantity |-> req[p].arg.quantity,
                                       mealVendorId |-> cur.vendorId])
                    /\ Step(p, [req[p] EXCEPT
                                 !.pc = "create_mail_customer",
                                 !.arg = @ @@ [stored |-> cur],
                                 !.order = row,
                                 !.trace = Append(@,
                                    WriteEvent("order.create", row.id))])
    /\ UNCHANGED <<meals, nextMealId, transporter, users, started>>

OrdersCreateWrite(p) ==
    /\ At(p, "create_write")
    /\ IF FindMeal(req[p].arg.mealId) = NoMeal
       THEN \* orders_mealId_fkey rejects the insert
            /\ Step(p,
                         Finished(req[p], "InternalServerError", <<>>))
            /\ UNCHANGED <<orders, nextOrderId, now, createdWith>>
       ELSE \* CURRENT_TIMESTAMP: each insert falls in a later millisecond
            LET t   == now + 1
                row == OrderRow(nextOrderId, req[p].arg,
                                req[p].arg.customerId, req[p].meal, t)
            IN  /\ orders' = orders \cup {row}
                /\ nextOrderId' = nextOrderId + 1
                /\ now' = t
                /\ createdWith' = createdWith @@
                       (row.id :> [price |-> req[p].meal.price,
                                   quantity |-> req[p].arg.quantity,
                                   mealVendorId |->
                                       FindMeal(req[p].arg.mealId).vendorId])
                /\ Step(p,
                        [req[p] EXCEPT
                           !.pc = "create_mail_customer",
                           !.arg = @ @@ [stored |->
                                           FindMeal(req[p].arg.mealId)],
                           !.order = row,
                           !.trace = Append(@,
                              WriteEvent("order.create", row.id))])
    /\ UNCHANGED <<meals, nextMealId, transporter, users, started>>

\* a customer invoice that throws is swallowed and the vendor is invoiced
OrdersCreateMailCustomerSwallowed(p) ==
    /\ At(p, "create_mail_customer")
    /\ \E result \in SendEmail :
         LET o == req[p].order
             r == [req[p] EXCEPT !.trace = Append(@,
                     SendEvent("invoice", Email(o.customerId), o, result))]
         IN  Step(p, [r EXCEPT !.pc = "create_mail_vendor"])
    /\ UNCHANGED <<meals, orders, nextMealId, nextOrderId, now, transporter, users,
                   createdWith, started>>

\* a failed customer invoice takes the created order back
OrdersCreateMailCustomerRollback(p) ==
    /\ At(p, "create_mail_customer")
    /\ \E result \in SendEmail :
         LET o == req[p].order
             r == [req[p] EXCEPT !.trace = Append(@,
                     SendEvent("invoice", Email(o.customerId), o, result))]
         IN  /\ Step(p,
                      IF result = "throw"
                      THEN Finished(r, "InternalServerError", <<>>)
                      ELSE [r EXCEPT !.pc = "create_mail_vendor"])
             /\ orders' = IF result = "throw" THEN orders \ {o} ELSE orders
    /\ UNCHANGED <<meals, nextMealId, nextOrderId, now, transporter, users,
                   createdWith, started>>

OrdersCreateMailCustomer(p) ==
    /\ At(p, "create_mail_customer")
    /\ \E result \in SendEmail :
         LET o == req[p].order
             r == [req[p] EXCEPT !.trace = Append(@,
                     SendEvent("invoice", Email(o.customerId), o, result))]
         IN  Step(p,
                       IF result = "throw"
                       THEN Finished(r, "InternalServerError", <<>>)
                       ELSE [r EXCEPT !.pc = "create_mail_vendor"])
    /\ UNCHANGED <<meals, orders, nextMealId, nextOrderId, now, transporter, users,
                   createdWith, started>>

\* the vendor's invoice is not sent
OrdersCreateMailVendorSkipped(p) ==
    /\ At(p, "create_mail_vendor")
    /\ Step(p, Finished(req[p], "ok", <<req[p].order>>))
    /\ UNCHANGED <<meals, orders, nextMealId, nextOrderId, now, transporter, users,
                   createdWith, started>>

OrdersCreateMailVendor(p) ==
    /\ At(p, "create_mail_vendor")
    /\ \E result \in SendEmail :
         LET o == req[p].order
             r == [req[p] EXCEPT !.trace = Append(@,
                     SendEvent("invoice", Email(o.vendorId), o, result))]
         IN  Step(p,
                       IF result = "throw"
                       THEN Finished(r, "InternalServerError", <<>>)
                       ELSE Finished(r, "ok", <<o>>))
    /\ UNCHANGED <<meals, orders, nextMealId, nextOrderId, now, transporter, users,
                   createdWith, started>>

\* findAll: the where clause
FindAllWhere(o, userId, userRole) ==
    IF userRole = CUSTOMER THEN o.customerId = userId
    ELSE o.vendorId = userId

\* the rows come oldest first
OrderedByAsc(rows, i, j) == rows[i].createdAt <= rows[j].createdAt

\* findAll: orderBy { createdAt: 'desc' }; rows of equal createdAt come in
\* any order
OrderedBy(rows, i, j) == rows[i].createdAt >= rows[j].createdAt

\* the sequences prisma.order.findMany can return for a set of rows
FindMany(rows) ==
    LET n == Cardinality(rows)
    IN  {s \in [1..n -> rows] :
           /\ \A i, j \in 1..n : i # j => s[i] # s[j]
           /\ \A i, j \in 1..n : i < j => OrderedBy(s, i, j)}

OrdersFindAll(p, userId, userRole) ==
    /\ CanStart(p)
    /\ \E rows \in FindMany({o \in orders : FindAllWhere(o, userId, userRole)}) :
         Step(p,
                   Finished([Idle EXCEPT !.op = "findAll",
                                         !.arg = [userId |-> userId,
                                                  userRole |-> userRole]],
                            "ok", rows))
    /\ started' = started + 1
    /\ UNCHANGED <<meals, orders, nextMealId, nextOrderId, now, transporter, users,
                   createdWith>>

\* the vendor branch lets every vendor through
FindOneGateAnyVendor(order, userId, userRole) ==
    IF order = NoOrder THEN "NotFound"
    ELSE IF userRole = CUSTOMER
         THEN (IF order.customerId # userId THEN "Forbidden" ELSE "ok")
    ELSE IF userRole = VENDOR THEN "ok"
    ELSE "Forbidden"

\* findOne: the checks after the order lookup
FindOneGate(order, userId, userRole) ==
    IF order = NoOrder THEN "NotFound"
    ELSE IF userRole = CUSTOMER
         THEN (IF order.customerId # userId THEN "Forbidden" ELSE "ok")
    ELSE IF userRole = VENDOR
         THEN (IF order.vendorId # userId THEN "Forbidden" ELSE "ok")
    ELSE "Forbidden"

OrdersFindOne(p, id, userId, userRole) ==
    /\ CanStart(p)
    /\ LET order == FindOrder(id)
           gate  == FindOneGate(order, userId, userRole)
           r     == [Idle EXCEPT !.op = "findOne",
                                 !.arg = [id |-> id, userId |-> userId,
                                          userRole |-> userRole],
                                 !.order = order]
       IN  Step(p,
                     IF gate = "ok" THEN Finished(r, "ok", <<order>>)
                     ELSE Finished(r, gate, <<>>))
    /\ started' = started + 1
    /\ UNCHANGED <<meals, orders, nextMealId, nextOrderId, now, transporter, users,
                   createdWith>>

\* the customer rule is missing
UpdateStatusGateNoCustomerRule(order, status, userId, userRole) ==
    IF order = NoOrder THEN "NotFound"
    ELSE IF userRole = VENDOR /\ order.vendorId # userId THEN "Forbidden"
    ELSE "ok"

\* the vendor rule is missing
UpdateStatusGateNoVendorRule(order, status, userId, userRole) ==
    IF order = NoOrder THEN "NotFound"
    ELSE IF userRole = CUSTOMER /\ status # DELIVERED THEN "Forbidden"
    ELSE "ok"

\* the customer rule comes before the lookup's result
UpdateStatusGateRoleFirst(order, status, userId, userRole) ==
    IF userRole = CUSTOMER /\ status # DELIVERED THEN "Forbidden"
    ELSE IF order = NoOrder THEN "NotFound"
    ELSE IF userRole = VENDOR /\ order.vendorId # userId THEN "Forbidden"
    ELSE "ok"

\* a customer passes only for an order of their own
UpdateStatusGateCustomerOwn(order, status, userId, userRole) ==
    IF order = NoOrder THEN "NotFound"
    ELSE IF userRole = CUSTOMER /\ status # DELIVERED THEN "Forbidden"
    ELSE IF userRole = CUSTOMER /\ order.customerId # userId THEN "Forbidden"
    ELSE IF userRole = VENDOR /\ order.vendorId # userId THEN "Forbidden"
    ELSE "ok"

\* a move to an earlier status is refused
UpdateStatusGateForwardOnly(order, status, userId, userRole) ==
    IF order = NoOrder THEN "NotFound"
    ELSE IF userRole = CUSTOMER /\ status # DELIVERED THEN "Forbidden"
    ELSE IF userRole = VENDOR /\ order.vendorId # userId THEN "Forbidden"
    ELSE IF \/ order.status = DELIVERED /\ status # DELIVERED
            \/ order.status = PROCESSING /\ status = ORDERED
         THEN "BadRequest"
    ELSE "ok"

\* updateStatus: the checks after the order lookup
UpdateStatusGate(order, status, userId, userRole) ==
    IF order = NoOrder THEN "NotFound"
    ELSE IF userRole = CUSTOMER /\ status # DELIVERED THEN "Forbidden"
    ELSE IF userRole = VENDOR /\ order.vendorId # userId THEN "Forbidden"
    ELSE "ok"

\* PROCESSING sends the delivery notifications too
AfterStatusWriteAlwaysDelivery(status) ==
    IF status = PROCESSING THEN "status_mail_customer"
    ELSE IF status = DELIVERED THEN "status_mail_customer"
    ELSE "done"

\* updateStatus: where the handler goes after the status write
AfterStatusWrite(status) ==
    IF status = PROCESSING THEN "status_mail_processing"
    ELSE IF status = DELIVERED THEN "status_mail_customer"
    ELSE "done"

\* the status is written before the role rules are applied
OrdersUpdateStatusFindWriteFirst(p, id, status, userId, userRole) ==
    /\ CanStart(p)
    /\ LET order == FindOrder(id)
           gate  == UpdateStatusGate(order, status, userId, userRole)
           r     == [Idle EXCEPT !.op = "updateStatus",
                                 !.arg = [id |-> id, status |-> status,
                                          userId |-> userId,
                                          userRole |-> userRole],
                                 !.order = order]
       IN  /\ Step(p, IF gate = "ok"
                      THEN [r EXCEPT !.pc = "status_write"]
                      ELSE Finished(r, gate, <<>>))
           /\ orders' = IF order = NoOrder THEN orders
                        ELSE (orders \ {order})
                                 \cup {[order EXCEPT !.status = status]}
    /\ started' = started + 1
    /\ UNCHANGED <<meals, nextMealId, nextOrderId, now, transporter, users,
                   createdWith>>

OrdersUpdateStatusFind(p, id, status, userId, userRole) ==
    /\ CanStart(p)
    /\ LET order == FindOrder(id)
           gate  == UpdateStatusGate(order, status, userId, userRole)
           r     == [Idle EXCEPT !.op = "updateStatus",
                                 !.arg = [id |-> id, status |-> status,
                                          userId |-> userId,
                                          userRole |-> userRole],
                                 !.order = order]
       IN  Step(p, IF gate = "ok"
                   THEN [r EXCEPT !.pc = "status_write"]
                   ELSE Finished(r, gate, <<>>))
    /\ started' = started + 1
    /\ UNCHANGED <<meals, orders, nextMealId, nextOrderId, now, transporter, users,
                   createdWith>>

\* the update also recomputes the total from the meal's current price
OrdersUpdateStatusWriteRepriced(p) ==
    /\ At(p, "status_write")
    /\ LET cur == FindOrder(req[p].arg.id)
       IN  IF cur = NoOrder
           THEN /\ Step(p, Finished(req[p], "InternalServerError", <<>>))
                /\ UNCHANGED orders
           ELSE LET updatedOrder ==
                        [cur EXCEPT !.status = req[p].arg.status,
                                    !.totalPrice =
                                        FindMeal(cur.mealId).price
                                            * cur.quantity]
                    r == [req[p] EXCEPT
                            !.val = <<updatedOrder>>,
                            !.trace = Append(@,
                               WriteEvent("order.update", cur.id))]
                    next == AfterStatusWrite(req[p].arg.status)
                IN  /\ orders' = (orders \ {cur}) \cup {updatedOrder}
                    /\ Step(p, IF next = "done"
                               THEN Finished(r, "ok", <<updatedOrder>>)
                               ELSE [r EXCEPT !.pc = next])
    /\ UNCHANGED <<meals, nextMealId, nextOrderId, now, transporter, users,
                   createdWith, started>>

OrdersUpdateStatusWrite(p) ==
    /\ At(p, "status_write")
    /\ LET cur == FindOrder(req[p].arg.id)
       IN  IF cur = NoOrder
           THEN \* prisma.order.update: record to update not found
                /\ Step(p,
                             Finished(req[p], "InternalServerError", <<>>))
                /\ UNCHANGED orders
           ELSE LET updatedOrder == [cur EXCEPT !.status = req[p].arg.status]
                    r == [req[p] EXCEPT
                            !.val = <<updatedOrder>>,
                            !.trace = Append(@,
                               WriteEvent("order.update", cur.id))]
                    next == AfterStatusWrite(req[p].arg.status)
                IN  /\ orders' = (orders \ {cur}) \cup {updatedOrder}
                    /\ Step(p,
                                 IF next = "done"
                                 THEN Finished(r, "ok", <<updatedOrder>>)
                                 ELSE [r EXCEPT !.pc = next])
    /\ UNCHANGED <<meals, nextMealId, nextOrderId, now, transporter, users,
                   createdWith, started>>

\* the notification is handed the updated order
StatusMailUpdated(p, pc, kind, to, next) ==
    /\ At(p, pc)
    /\ \E result \in SendEmail :
         LET r == [req[p] EXCEPT !.trace = Append(@,
                     SendEvent(kind, to, req[p].val[1], result))]
         IN  Step(p,
                  IF result = "throw"
                  THEN Finished(r, "InternalServerError", <<>>)
                  ELSE IF next = "done" THEN Finished(r, "ok", r.val)
                  ELSE [r EXCEPT !.pc = next])
    /\ UNCHANGED <<meals, orders, nextMealId, nextOrderId, now, transporter, users,
                   createdWith, started>>

\* one await this.mailService.send...(to, order, ...) of updateStatus at
\* position pc, continuing at next ("done": return updatedOrder)
StatusMail(p, pc, kind, to, next) ==
    /\ At(p, pc)
    /\ \E result \in SendEmail :
         LET r == [req[p] EXCEPT !.trace = Append(@,
                     SendEvent(kind, to, req[p].order, result))]
         IN  Step(p,
                       IF result = "throw"
                       THEN Finished(r, "InternalServerError", <<>>)
                       ELSE IF next = "done" THEN Finished(r, "ok", r.val)
                       ELSE [r EXCEPT !.pc = next])
    /\ UNCHANGED <<meals, orders, nextMealId, nextOrderId, now, transporter, users,
                   createdWith, started>>

OrdersUpdateStatusMailProcessing(p) ==
    StatusMail(p, "status_mail_processing", "status:Processing",
               Email(req[p].order.customerId), "done")

OrdersUpdateStatusMailCustomer(p) ==
    StatusMail(p, "status_mail_customer", "delivery",
               Email(req[p].order.customerId), "status_mail_vendor")

OrdersUpdateStatusMailVendor(p) ==
    StatusMail(p, "status_mail_vendor", "delivery",
               Email(req[p].order.vendorId), "done")

\* ------------------------------------------------------------ MealsController
\* the values a request body holds, by their typeof; a string is the
\* sequence of its tokens
Undefined == [t |-> "undefined"]
Null == [t |-> "null"]
Num(n) == [t |-> "number", n |-> n]
Str(s) == [t |-> "string", s |-> s]
Arr(a) == [t |-> "array", a |-> a]

\* body[f]
Field(body, f) == IF f \in DOMAIN body THEN body[f] ELSE Undefined

\* a ?? b
Coalesce(a, b) == IF a.t \in {"undefined", "null"} THEN b ELSE a

BadRequest == [error |-> "BadRequest"]

Digits == {"0", "1", "2"}

DigitValue(d) == CASE d = "0" -> 0 [] d = "1" -> 1 [] d = "2" -> 2

RECURSIVE DigitsPrefix(_)
DigitsPrefix(s) ==
    IF s = <<>> \/ Head(s) \notin Digits THEN <<>>
    ELSE <<Head(s)>> \o DigitsPrefix(Tail(s))

RECURSIVE Decimal(_)
Decimal(ds) ==
    IF ds = <<>> THEN 0
    ELSE 10 * Decimal(SubSeq(ds, 1, Len(ds) - 1)) + DigitValue(ds[Len(ds)])

\* parseFloat on whole numbers: an optional sign and the longest prefix of
\* digits; no digits gives NaN
ParseFloat(s) ==
    LET neg  == s # <<>> /\ Head(s) = "-"
        rest == IF neg THEN Tail(s) ELSE s
        ds   == DigitsPrefix(rest)
    IN  IF ds = <<>> THEN [finite |-> FALSE, n |-> 0]
        ELSE [finite |-> TRUE, n |-> IF neg THEN 0 - Decimal(ds) ELSE Decimal(ds)]

\* parsePrice: a number as it is, a string through parseFloat
ParsePrice(value) ==
    IF value.t = "number" THEN [v |-> value.n]
    ELSE IF value.t = "string"
    THEN LET f == ParseFloat(value.s)
         IN  IF f.finite THEN [v |-> f.n] ELSE BadRequest
    ELSE BadRequest

\* parseStatus: nothing or '' is IN_STOCK, a name of the enum is itself
ParseStatus(value) ==
    IF value.t \in {"undefined", "null"} THEN [v |-> IN_STOCK]
    ELSE IF value.t = "string"
    THEN IF value.s = <<>> THEN [v |-> IN_STOCK]
         ELSE IF Len(value.s) = 1 /\ value.s[1] \in MealStatus
         THEN [v |-> value.s[1]]
         ELSE BadRequest
    ELSE BadRequest

\* the MealCategory enum
MealCategory ==
    {"SWALLOW", "SOUP", "NIGERIA_DISH", "INTERCONTINENTAL_DISH", "PASTRIES",
     "LOCAL"}

Includes(s, c) == \E i \in DOMAIN s : s[i] = c

\* value.split(',')
RECURSIVE Split(_)
Split(s) ==
    IF ~Includes(s, ",") THEN <<s>>
    ELSE LET i == CHOOSE j \in DOMAIN s :
                      s[j] = "," /\ \A k \in 1..(j - 1) : s[k] # ","
         IN  <<SubSeq(s, 1, i - 1)>> \o Split(SubSeq(s, i + 1, Len(s)))

\* the strings parseCategories checks against the enum
CategoryStrings(value) ==
    IF value.t = "array"
    THEN IF \E i \in DOMAIN value.a : value.a[i].t # "string"
         THEN BadRequest
         ELSE [v |-> [i \in DOMAIN value.a |-> value.a[i].s]]
    ELSE IF value.t = "string"
    THEN [v |-> IF Includes(value.s, ",") THEN Split(value.s)
                ELSE <<value.s>>]
    ELSE BadRequest

\* parseCategories: nothing is the empty list; an array, a comma-separated
\* string or one name, each a name of the enum
ParseCategories(value) ==
    IF value.t \in {"undefined", "null"} THEN [v |-> <<>>]
    ELSE LET arr == CategoryStrings(value)
         IN  IF arr = BadRequest THEN BadRequest
             ELSE IF \E i \in DOMAIN arr.v :
                         ~(Len(arr.v[i]) = 1 /\ arr.v[i][1] \in MealCategory)
             THEN BadRequest
             ELSE [v |-> [i \in DOMAIN arr.v |-> arr.v[i][1]]]

\* body['categories[]'] ?? body['categories']
CategoriesRaw(body) ==
    Coalesce(Field(body, "categories[]"), Field(body, "categories"))

\* MealsController.create: the dto of a body, or the error of its parsing
CreateMealDtoOf(body) ==
    LET price      == ParsePrice(Field(body, "price"))
        status     == ParseStatus(Field(body, "status"))
        categories == ParseCategories(CategoriesRaw(body))
    IN  IF price = BadRequest \/ status = BadRequest
           \/ categories = BadRequest
        THEN BadRequest
        ELSE IF Len(categories.v) = 0 THEN BadRequest
        ELSE [price |-> price.v, status |-> status.v,
              categories |-> categories.v]

\* ------------------------------------------------------------ MealsService
\* the dto fields of a meal: price, status and categories
CreateMealDtos ==
    [price : Prices, status : MealStatus, categories : {<<"SOUP">>}]

\* an UpdateMealDto sets the price or the status
UpdateMealDtos ==
    [price : Prices] \cup [status : MealStatus]

\* the bodies of POST /meals that give the dtos above
CreateMealBodies ==
    {[price |-> Num(d.price), status |-> Str(<<d.status>>),
      categories |-> Str(<<"SOUP">>)] : d \in CreateMealDtos}

\* the bodies of PATCH /meals/:id: a price, a status, and a price together
\* with a field the dto does not have
UpdateMealBodies ==
    {[price |-> Num(n)] : n \in Prices}
    \cup {[status |-> Str(<<st>>)] : st \in MealStatus}
    \cup {[price |-> Num(2), vendorId |-> Str(<<"v2">>)]}

\* a body value as the value it stands for
Plain(value) ==
    IF value.t = "number" THEN value.n ELSE value.s[1]

\* the whole body is handed to the service
UpdateMealDtoWholeBody(body) == [f \in DOMAIN body |-> Plain(body[f])]

\* MealsController.update: the dto is built from the fields it names, each
\* through its parser
UpdateMealDtoOf(body) ==
    LET price      == ParsePrice(Field(body, "price"))
        status     == ParseStatus(Field(body, "status"))
        categories == ParseCategories(CategoriesRaw(body))
        named      == {f \in {"price", "status"} : Field(body, f) # Undefined}
                      \cup (IF CategoriesRaw(body) # Undefined
                            THEN {"categories"} ELSE {})
    IN  IF \/ "price" \in named /\ price = BadRequest
           \/ "status" \in named /\ status = BadRequest
           \/ "categories" \in named /\ categories = BadRequest
        THEN BadRequest
        ELSE [f \in named |-> CASE f = "price" -> price.v
                                [] f = "status" -> status.v
                                [] f = "categories" -> categories.v]

\* create: prisma.meal.create({ data: { ...createMealDto, vendorId } })
MealsCreate(p, dto, vendorId) ==
    /\ CanStart(p)
    /\ LET row == [id |-> nextMealId, vendorId |-> vendorId] @@ dto
       IN  /\ meals' = meals \cup {row}
           /\ Step(p,
                        Finished([Idle EXCEPT !.op = "mealCreate",
                                              !.arg = [vendorId |-> vendorId]],
                                 "ok", <<row>>))
    /\ nextMealId' = nextMealId + 1
    /\ started' = started + 1
    /\ UNCHANGED <<orders, nextOrderId, now, transporter, users, createdWith>>

\* MealsController.create: a body that does not parse is answered with
\* BadRequest, the dto of any other goes to the service
MealsControllerCreate(p, body, vendorId) ==
    LET dto == CreateMealDtoOf(body)
    IN  IF dto = BadRequest
        THEN /\ CanStart(p)
             /\ Step(p, Finished([Idle EXCEPT !.op = "mealCreate",
                                              !.arg = [vendorId |-> vendorId]],
                                 "BadRequest", <<>>))
             /\ started' = started + 1
             /\ UNCHANGED <<meals, orders, nextMealId, nextOrderId, now,
                            transporter, users, createdWith>>
        ELSE MealsCreate(p, dto, vendorId)

\* the role is not looked at
MealGateOwnerOnly(meal, userId, userRole) ==
    IF meal = NoMeal THEN "NotFound"
    ELSE IF meal.vendorId # userId THEN "Forbidden"
    ELSE "ok"

\* update, remove: the checks after the meal lookup
MealGate(meal, userId, userRole) ==
    IF meal = NoMeal THEN "NotFound"
    ELSE IF userRole # VENDOR \/ meal.vendorId # userId THEN "Forbidden"
    ELSE "ok"

\* the lookup and checks that open update and remove
MealsFind(p, op, pc, id, body, dto, userId, userRole) ==
    /\ CanStart(p)
    /\ LET meal == FindMeal(id)
           gate == MealGate(meal, userId, userRole)
           r    == [Idle EXCEPT !.op = op,
                                !.arg = [id |-> id, body |-> body,
                                         dto |-> dto,
                                         userId |-> userId,
                                         userRole |-> userRole],
                                !.meal = meal]
       IN  Step(p, IF gate = "ok"
                   THEN [r EXCEPT !.pc = pc]
                   ELSE Finished(r, gate, <<>>))
    /\ started' = started + 1
    /\ UNCHANGED <<meals, orders, nextMealId, nextOrderId, now, transporter, users,
                   createdWith>>

\* MealsController.update builds the dto before the service looks the meal up
MealsUpdateFind(p, id, body, userId, userRole) ==
    LET dto == UpdateMealDtoOf(body)
    IN  IF dto = BadRequest
        THEN /\ CanStart(p)
             /\ Step(p, Finished([Idle EXCEPT !.op = "mealUpdate",
                                              !.arg = [id |-> id,
                                                       body |-> body,
                                                       dto |-> dto,
                                                       userId |-> userId,
                                                       userRole |-> userRole]],
                                 "BadRequest", <<>>))
             /\ started' = started + 1
             /\ UNCHANGED <<meals, orders, nextMealId, nextOrderId, now,
                            transporter, users, createdWith>>
        ELSE MealsFind(p, "mealUpdate", "meal_update", id, body, dto,
                       userId, userRole)

\* update: prisma.meal.update({ where: { id }, data: updateMealDto })
MealsUpdateWrite(p) ==
    /\ At(p, "meal_update")
    /\ LET cur == FindMeal(req[p].arg.id)
       IN  IF cur = NoMeal
           THEN /\ Step(p,
                             Finished(req[p], "InternalServerError", <<>>))
                /\ UNCHANGED meals
           ELSE LET row == req[p].arg.dto @@ cur
                IN  /\ meals' = (meals \ {cur}) \cup {row}
                    /\ Step(p, Finished(req[p], "ok", <<row>>))
    /\ UNCHANGED <<orders, nextMealId, nextOrderId, now, transporter, users,
                   createdWith, started>>

MealsRemoveFind(p, id, userId, userRole) ==
    MealsFind(p, "mealRemove", "meal_remove", id, [none |-> TRUE],
              [none |-> TRUE], userId, userRole)

\* remove: prisma.meal.delete({ where: { id } }); orders_mealId_fkey is
\* ON DELETE CASCADE
MealsRemoveWrite(p) ==
    /\ At(p, "meal_remove")
    /\ LET cur == FindMeal(req[p].arg.id)
       IN  IF cur = NoMeal
           THEN /\ Step(p,
                             Finished(req[p], "InternalServerError", <<>>))
                /\ UNCHANGED <<meals, orders>>
           ELSE /\ meals' = meals \ {cur}
                /\ orders' = {o \in orders : o.mealId # cur.id}
                /\ Step(p, Finished(req[p], "ok", <<cur>>))
    /\ UNCHANGED <<nextMealId, nextOrderId, now, transporter, users, createdWith,
                   started>>

\* the controller hands the finished request's result to the client
Respond ==
    /\ last.pc = "done"
    /\ last' = Idle
    /\ UNCHANGED <<meals, orders, nextMealId, nextOrderId, now, transporter, users,
                   req, createdWith, started>>

\* -------------------------------------------------------------- AuthService
\* users.username of a row stored without one (the column is nullable)
NULL == "<null>"

\* the usernames of the users the catalogue starts with
Username(u) == IF u = "c1" THEN "c1" ELSE NULL

\* the role a user of the catalogue registered with
RoleOf(u) == IF u \in Vendors THEN VENDOR ELSE CUSTOMER

\* the sign-up bodies: an email that is taken or free, no username, an empty
\* one, one that is taken or free; a vendor with and without its business
\* fields
SignUpDtos ==
    [email : {Email("c1"), "new@mail", "neo@mail"},
     username : {NULL, "", "c1", "neo"},
     role : {CUSTOMER}, business : {FALSE}]
    \cup [email : {"new@mail"}, username : {NULL}, role : {VENDOR},
          business : BOOLEAN]

\* the ids uuid() draws from
UserIds == {"u1", "u2", "u3", "u4"}

\* uuid(): an id no stored row has
NewUserId == CHOOSE id \in UserIds : \A u \in users : u.id # id

\* findFirst({ where: { OR: [{ email }, ...(username ? [{ username }] : [])] } })
ExistingUser(dto) ==
    \E u \in users :
        \/ u.email = dto.email
        \/ dto.username \notin {NULL, ""} /\ u.username = dto.username

\* users_email_key and users_username_key: a unique index rejects a row whose
\* value an other row holds; NULLs are distinct from each other
UniqueViolation(row) ==
    \E u \in users :
        \/ u.email = row.email
        \/ row.username # NULL /\ u.username = row.username

\* signUp up to its guards; the create follows the await of bcrypt.hash
SignUpFind(p, dto) ==
    /\ CanStart(p)
    /\ LET r == [Idle EXCEPT !.op = "signUp", !.arg = dto]
       IN  Step(p, IF ExistingUser(dto) THEN Finished(r, "Conflict", <<>>)
                   ELSE IF dto.role = VENDOR /\ ~dto.business
                   THEN Finished(r, "Conflict", <<>>)
                   ELSE [r EXCEPT !.pc = "signup_create"])
    /\ started' = started + 1
    /\ UNCHANGED <<meals, orders, nextMealId, nextOrderId, now, transporter,
                   users, createdWith>>

\* the table has no unique index
SignUpCreateNoIndex(p) ==
    /\ At(p, "signup_create")
    /\ LET dto == req[p].arg
           row == [id |-> NewUserId, email |-> dto.email,
                   username |-> dto.username, role |-> dto.role]
       IN  /\ users' = users \cup {row}
           /\ Step(p, [req[p] EXCEPT
                         !.pc = "signup_mail",
                         !.trace = Append(@, WriteEvent("user", row.id)),
                         !.val = <<row>>])
    /\ UNCHANGED <<meals, orders, nextMealId, nextOrderId, now, transporter,
                   createdWith, started>>

\* signUp: prisma.user.create({ data: { ...rest, email, username, role,
\* password } }); a violated unique index fails the call
SignUpCreate(p) ==
    /\ At(p, "signup_create")
    /\ LET dto == req[p].arg
           row == [id |-> NewUserId, email |-> dto.email,
                   username |-> dto.username, role |-> dto.role]
       IN  IF UniqueViolation(row)
           THEN /\ Step(p, Finished(req[p], "InternalServerError", <<>>))
                /\ UNCHANGED users
           ELSE /\ users' = users \cup {row}
                /\ Step(p, [req[p] EXCEPT
                              !.pc = "signup_mail",
                              !.trace = Append(@, WriteEvent("user", row.id)),
                              !.val = <<row>>])
    /\ UNCHANGED <<meals, orders, nextMealId, nextOrderId, now, transporter,
                   createdWith, started>>

\* the exception of the welcome email leaves signUp
SignUpMailRethrown(p) ==
    /\ At(p, "signup_mail")
    /\ \E result \in SendEmail :
        LET user == req[p].val[1]
            r    == [req[p] EXCEPT
                       !.trace = Append(@, SendEvent("welcome", user.email,
                                                     user, result))]
        IN  Step(p, IF result = "throw"
                    THEN Finished(r, "InternalServerError", <<>>)
                    ELSE Finished(r, "ok", <<user>>))
    /\ UNCHANGED <<meals, orders, nextMealId, nextOrderId, now, transporter,
                   users, createdWith, started>>

\* signUp: try { await sendWelcomeEmail(...) } catch { console.error(...) },
\* then return the user
SignUpMail(p) ==
    /\ At(p, "signup_mail")
    /\ \E result \in SendEmail :
        LET user == req[p].val[1]
            r    == [req[p] EXCEPT
                       !.trace = Append(@, SendEvent("welcome", user.email,
                                                     user, result))]
        IN  Step(p, Finished(r, "ok", <<user>>))
    /\ UNCHANGED <<meals, orders, nextMealId, nextOrderId, now, transporter,
                   users, createdWith, started>>

\* ------------------------------------------------------------ specification
\* a catalogue of two meals in stock, one per vendor, and one order placed
\* by c1 for meal 1 at time 0
Init ==
    /\ meals = {[id |-> 1, vendorId |-> "v1", price |-> 1,
                 status |-> IN_STOCK, categories |-> <<"SOUP">>],
                [id |-> 2, vendorId |-> "v2", price |-> 2,
                 status |-> IN_STOCK, categories |-> <<"SOUP">>]}
    /\ orders = {[id |-> 1, quantity |-> 1, totalPrice |-> 1,
                  customerId |-> "c1", vendorId |-> "v1", mealId |-> 1,
                  status |-> ORDERED, createdAt |-> 0]}
    /\ nextMealId = 3
    /\ nextOrderId = 2
    /\ now = 0
    /\ transporter \in BOOLEAN
    /\ req = [p \in Procs |-> Idle]
    /\ users = {[id |-> u, email |-> Email(u), username |-> Username(u),
                  role |-> RoleOf(u)] : u \in Users}
    /\ last = Idle
    /\ createdWith = (1 :> [price |-> 1, quantity |-> 1,
                             mealVendorId |-> "v1"])
    /\ started = 0

Next ==
    \/ Respond
    \/ \E p \in Procs :
        \/ /\ CanStart(p)
           /\ \E dto \in [mealId : MealIdArgs, quantity : Quantities],
                 customerId \in Customers :
                   OrdersCreateFind(p, dto, customerId)
        \/ OrdersCreateWrite(p)
        \/ OrdersCreateMailCustomer(p)
        \/ OrdersCreateMailVendor(p)
        \/ /\ CanStart(p)
           /\ \E a \in OrderActors :
                   OrdersFindAll(p, a[1], a[2])
        \/ /\ CanStart(p)
           /\ \E id \in OrderIdArgs, a \in OrderActors :
                   OrdersFindOne(p, id, a[1], a[2])
        \/ /\ CanStart(p)
           /\ \E id \in OrderIdArgs, status \in OrderStatus, a \in Principals :
                   OrdersUpdateStatusFind(p, id, status, a[1], a[2])
        \/ OrdersUpdateStatusWrite(p)
        \/ OrdersUpdateStatusMailProcessing(p)
        \/ OrdersUpdateStatusMailCustomer(p)
        \/ OrdersUpdateStatusMailVendor(p)
        \/ /\ CanStart(p)
           /\ \E body \in CreateMealBodies, vendorId \in Vendors :
                   MealsControllerCreate(p, body, vendorId)
        \/ /\ CanStart(p)
           /\ \E id \in MealIdArgs, body \in UpdateMealBodies,
                 a \in MealActors :
                   MealsUpdateFind(p, id, body, a[1], a[2])
        \/ MealsUpdateWrite(p)
        \/ /\ CanStart(p)
           /\ \E id \in MealIdArgs, a \in MealActors :
                   MealsRemoveFind(p, id, a[1], a[2])
        \/ MealsRemoveWrite(p)

Spec == Init /\ [][Next]_vars

\* ---------------------------------------------------- the meals endpoints
\* what a client may send as price: numbers and strings, above zero, zero,
\* below zero, and a string that is no number
PriceFields ==
    {Num(2), Num(0), Num(0 - 1), Str(<<"2">>), Str(<<"-", "1">>),
     Str(<<"x">>)}

\* what a client may send as categories: one name, comma-separated names,
\* arrays, of no, one and four names, and values that are no category
CategoryFields ==
    {Str(<<"SOUP">>), Str(<<"SOUP", ",", "LOCAL">>),
     Str(<<"SOUP", ",", "LOCAL", ",", "SWALLOW", ",", "PASTRIES">>),
     Arr(<<>>), Arr(<<Str(<<"LOCAL">>)>>),
     Arr(<<Str(<<"SOUP">>), Str(<<"LOCAL">>), Str(<<"SWALLOW">>),
           Str(<<"PASTRIES">>)>>),
     Arr(<<Null>>), Str(<<"PIZZA">>), Null}

\* the bodies of POST /meals and PATCH /meals/:id
MealBodies ==
    [price : PriceFields, categories : CategoryFields]
    \cup [price : PriceFields]
    \cup [categories : CategoryFields]
    \cup {[f \in {"categories[]"} |-> Arr(<<Str(<<"SOUP">>)>>)],
          [status |-> Str(<<"SOLD">>)]}

\* the create and update endpoints of /meals, under any body
NextMeals ==
    \/ Respond
    \/ \E p \in Procs :
        \/ /\ CanStart(p)
           /\ \E body \in MealBodies, vendorId \in Vendors :
                   MealsControllerCreate(p, body, vendorId)
        \/ /\ CanStart(p)
           /\ \E id \in MealIdArgs, body \in MealBodies, a \in MealActors :
                   MealsUpdateFind(p, id, body, a[1], a[2])
        \/ MealsUpdateWrite(p)

SpecMeals == Init /\ [][NextMeals]_vars

\* ------------------------------------------------------ the sign-up endpoint
\* concurrent POST /auth/signup requests
NextAuth ==
    \/ Respond
    \/ \E p \in Procs :
        \/ /\ CanStart(p)
           /\ \E dto \in SignUpDtos : SignUpFind(p, dto)
        \/ SignUpCreate(p)
        \/ SignUpMail(p)

SpecAuth == Init /\ [][NextAuth]_vars

\* ------------------------------------------------------------------ claims
Range(seq) == {seq[i] : i \in DOMAIN seq}

IsSend(e)  == e.ev = "send"
IsWrite(e) == e.ev = "write"

\* the notification calls of a handler, in order
Sends(trace) == SelectSeq(trace, IsSend)

\* every notification call of the trace comes after the handler's write
SendsFollowWrite(trace) ==
    \A i \in DOMAIN trace :
        IsSend(trace[i]) => \E j \in 1..(i - 1) : IsWrite(trace[j])

\* C1: every stored order's totalPrice is the meal price its create read
\* times its quantity, whatever updateStatus and the meal updates did since.
C1_TotalPriceSnapshot ==
    \A o \in orders :
        /\ o.quantity = createdWith[o.id].quantity
        /\ o.totalPrice = createdWith[o.id].price * createdWith[o.id].quantity

\* an order for two units created by a request, whose meal's price was
\* edited afterwards
C1_Witness ==
    \E o \in orders :
        /\ o.id > 1
        /\ o.quantity = 2
        /\ FindMeal(o.mealId) # NoMeal
        /\ FindMeal(o.mealId).price # createdWith[o.id].price
        /\ last.op = "mealUpdate" /\ last.res = "ok"

\* C2: updateStatus by a CUSTOMER on an existing order succeeds only for
\* DELIVERED; for ORDERED and PROCESSING it fails with Forbidden, writing
\* nothing.
C2_CustomerOnlyDelivered ==
    /\ \A p \in Procs :
          (req[p].op = "updateStatus" /\ req[p].arg.userRole = CUSTOMER)
              => req[p].arg.status = DELIVERED
    /\ (/\ last.op = "updateStatus"
        /\ last.arg.userRole = CUSTOMER
        /\ last.order # NoOrder)
          => /\ last.res = "ok" => last.arg.status = DELIVERED
             /\ last.arg.status # DELIVERED
                  => last.res = "Forbidden" /\ last.trace = <<>>

\* a customer asked for PROCESSING on their own order and got Forbidden
C2_Witness ==
    /\ last.op = "updateStatus"
    /\ last.arg.userRole = CUSTOMER
    /\ last.order # NoOrder
    /\ last.order.customerId = last.arg.userId
    /\ last.arg.status = PROCESSING
    /\ last.res = "Forbidden"

\* C3: updateStatus by a VENDOR on an existing order succeeds only for the
\* order's vendor; any other vendor gets Forbidden for every status, and
\* nothing is written.
C3_VendorOnlyOwn ==
    /\ \A p \in Procs :
          (req[p].op = "updateStatus" /\ req[p].arg.userRole = VENDOR)
              => req[p].order.vendorId = req[p].arg.userId
    /\ (/\ last.op = "updateStatus"
        /\ last.arg.userRole = VENDOR
        /\ last.order # NoOrder)
          => /\ last.res = "ok" => last.order.vendorId = last.arg.userId
             /\ last.order.vendorId # last.arg.userId
                  => last.res = "Forbidden" /\ last.trace = <<>>

\* vendor v2 asked for DELIVERED on an order of vendor v1 and got Forbidden
C3_Witness ==
    /\ last.op = "updateStatus"
    /\ last.arg.userRole = VENDOR
    /\ last.order # NoOrder
    /\ last.order.vendorId # last.arg.userId
    /\ last.arg.status = DELIVERED
    /\ last.res = "Forbidden"

\* the actor may read the order: its customer as CUSTOMER, its vendor as
\* VENDOR
MayRead(o, userId, userRole) ==
    \/ userRole = CUSTOMER /\ userId = o.customerId
    \/ userRole = VENDOR /\ userId = o.vendorId

\* C4: getOrder returns the stored order exactly to its customer (role
\* CUSTOMER) or its vendor (role VENDOR); every other actor gets Forbidden,
\* and an id that is not stored gets NotFound.
C4_GetOrder ==
    last.op = "findOne" =>
        LET o == FindOrder(last.arg.id)
        IN  IF o = NoOrder THEN last.res = "NotFound" /\ last.val = <<>>
            ELSE IF MayRead(o, last.arg.userId, last.arg.userRole)
                 THEN last.res = "ok" /\ last.val = <<o>>
            ELSE last.res = "Forbidden" /\ last.val = <<>>

\* an actor of another role whose id is the order's customer got Forbidden
C4_Witness ==
    /\ last.op = "findOne"
    /\ last.arg.userRole \notin UserRole
    /\ FindOrder(last.arg.id) # NoOrder
    /\ FindOrder(last.arg.id).customerId = last.arg.userId
    /\ last.res = "Forbidden"

\* C5: listOrders returns, for a CUSTOMER or a VENDOR, each stored order of
\* which the actor is the customer resp. the vendor once, no other order,
\* by creation time descending.
C5_ListOrders ==
    (last.op = "findAll" /\ last.arg.userRole \in UserRole) =>
        /\ Range(last.val) =
              {o \in orders :
                  MayRead(o, last.arg.userId, last.arg.userRole)}
        /\ Len(last.val) = Cardinality(Range(last.val))
        /\ \A i, j \in DOMAIN last.val :
              i < j => last.val[i].createdAt >= last.val[j].createdAt

\* a vendor with two orders created at different times got the later one
\* first
C5_Witness ==
    /\ last.op = "findAll"
    /\ last.arg.userRole = VENDOR
    /\ Len(last.val) = 2
    /\ last.val[1].createdAt > last.val[2].createdAt

\* C6: createOrder for a mealId that resolves to no stored meal fails with
\* NotFound, having written no order and sent no notification.
C6_MealNotFound ==
    /\ \A p \in Procs : req[p].op = "create" => req[p].meal # NoMeal
    /\ (last.op = "create" /\ last.meal = NoMeal)
          => /\ last.res = "NotFound"
             /\ last.trace = <<>>
             /\ last.val = <<>>

\* a create named a meal id that a stored meal once had (the meal was
\* removed) and got NotFound
C6_Witness ==
    /\ last.op = "create"
    /\ last.meal = NoMeal
    /\ last.arg.mealId < nextMealId
    /\ last.res = "NotFound"

\* C7: createOrder for a meal it reads as not IN_STOCK fails with the
\* out-of-stock BadRequest for every quantity, having written no order and
\* sent no notification.
C7_OutOfStock ==
    /\ \A p \in Procs : req[p].op = "create" => req[p].meal.status = IN_STOCK
    /\ (/\ last.op = "create"
        /\ last.meal # NoMeal
        /\ last.meal.status # IN_STOCK)
          => /\ last.res = "BadRequest"
             /\ last.trace = <<>>
             /\ last.val = <<>>

\* a create for two units of an OUT_OF_STOCK meal got BadRequest
C7_Witness ==
    /\ last.op = "create"
    /\ last.meal # NoMeal
    /\ last.meal.status = OUT_OF_STOCK
    /\ last.arg.quantity = 2
    /\ last.res = "BadRequest"

\* C8: a createOrder that returned its order has called sendOrderInvoice
\* exactly twice, for the order's customer and then its vendor, both after
\* the order write.
C8_TwoInvoices ==
    (last.op = "create" /\ last.res = "ok") =>
        LET o == last.order
            sent == Sends(last.trace)
        IN  /\ last.val = <<o>>
            /\ Len(sent) = 2
            /\ \A i \in 1..2 : sent[i].kind = "invoice" /\ sent[i].snap = o
            /\ {sent[i].to : i \in 1..2} =
                  {Email(o.customerId), Email(o.vendorId)}
            /\ \E i \in DOMAIN last.trace :
                  /\ IsWrite(last.trace[i])
                  /\ last.trace[i].kind = "order.create"
                  /\ last.trace[i].snap.id = o.id
            /\ SendsFollowWrite(last.trace)

\* a create returned its order after both invoices were delivered
C8_Witness ==
    /\ last.op = "create"
    /\ last.res = "ok"
    /\ Len(Sends(last.trace)) = 2
    /\ \A i \in DOMAIN last.trace :
          IsSend(last.trace[i]) => last.trace[i].result = "true"

\* the notification calls updateStatus makes for a status: (kind, recipient)
StatusNotifications(o, status) ==
    IF status = PROCESSING
    THEN << <<"status:Processing", Email(o.customerId)>> >>
    ELSE IF status = DELIVERED
    THEN << <<"delivery", Email(o.customerId)>>,
            <<"delivery", Email(o.vendorId)>> >>
    ELSE << >>

\* C9: an updateStatus that returned has made, after its status write, one
\* Processing notification to the customer for PROCESSING, two delivery
\* notifications (customer, vendor) for DELIVERED, and none for ORDERED.
C9_StatusNotifications ==
    (last.op = "updateStatus" /\ last.res = "ok") =>
        LET sent == Sends(last.trace)
            want == StatusNotifications(last.val[1], last.arg.status)
        IN  /\ Len(last.val) = 1
            /\ last.val[1].status = last.arg.status
            /\ Len(sent) = Len(want)
            /\ \A i \in DOMAIN want :
                  <<sent[i].kind, sent[i].to>> = want[i]
            /\ \E i \in DOMAIN last.trace :
                  /\ IsWrite(last.trace[i])
                  /\ last.trace[i].kind = "order.update"
            /\ SendsFollowWrite(last.trace)

\* an updateStatus to DELIVERED returned after its two notifications
C9_Witness ==
    /\ last.op = "updateStatus"
    /\ last.res = "ok"
    /\ last.arg.status = DELIVERED
    /\ Len(Sends(last.trace)) = 2

\* C10: a notification call that returned false or threw does not fail
\* createOrder or updateStatus: the request still returns the order it
\* persisted.
C10_SendFailureIgnored ==
    (/\ last.op \in {"create", "updateStatus"}
     /\ \E i \in DOMAIN last.trace :
           /\ IsSend(last.trace[i])
           /\ last.trace[i].result \in {"false", "throw"})
        => last.res = "ok" /\ Len(last.val) = 1

\* the trace of the request of slot p after the step: the slot's, or the
\* finished request's when the step ended it
TraceAfter(p) ==
    IF req[p].pc # "idle" /\ req'[p].pc = "idle" THEN last'.trace
    ELSE req'[p].trace

\* the step made the request of slot p call the notification gateway, and
\* the call returned false or threw
SendFailedNow(p) ==
    /\ Len(TraceAfter(p)) = Len(req[p].trace) + 1
    /\ IsSend(TraceAfter(p)[Len(TraceAfter(p))])
    /\ TraceAfter(p)[Len(TraceAfter(p))].result \in {"false", "throw"}

\* C11: a notification send that fails after the order write of create or
\* the status write of updateStatus leaves the orders table as it is: the
\* created order and the written status are not taken back.
C11_NoRollback ==
    [][\A p \in Procs : SendFailedNow(p) => orders' = orders]_vars

\* a create whose customer invoice threw has ended with its order stored
C11_Witness ==
    /\ last.op = "create"
    /\ last.res = "InternalServerError"
    /\ Len(last.trace) = 2
    /\ last.trace[2].result = "throw"
    /\ last.order \in orders

\* the position of a status in ORDERED -> PROCESSING -> DELIVERED
Rank(status) ==
    CASE status = ORDERED    -> 1
      [] status = PROCESSING -> 2
      [] status = DELIVERED  -> 3

\* C12: the status of a stored order never moves to an earlier status of
\* ORDERED -> PROCESSING -> DELIVERED.
C12_LinearLifecycle ==
    [][\A o \in orders : \A n \in orders' :
          n.id = o.id => Rank(n.status) >= Rank(o.status)]_vars

\* the C13 case: the order a create inserts in this step, for slot p
InsertedBy(p, n) ==
    /\ req[p].op = "create"
    /\ req[p].pc = "create_write"
    /\ n.customerId = req[p].arg.customerId
    /\ n.mealId = req[p].arg.mealId
    /\ n.quantity = req[p].arg.quantity

\* C13: an order appears in the store in one step, with status ORDERED,
\* the calling customer's id and the mealId and quantity of the request of
\* a create that is at its write.
C13_CreatedOrdered ==
    [][\A n \in orders' :
          (\A o \in orders : o.id # n.id)
              => /\ n.status = ORDERED
                 /\ \E p \in Procs : InsertedBy(p, n)
                 /\ DOMAIN n = {"id", "quantity", "totalPrice", "customerId",
                                "vendorId", "mealId", "status", "createdAt"}]_vars

\* customer c2's order for two units of meal 2 has just been written and is
\* ORDERED, the request being at its first invoice
C13_Witness ==
    \E p \in Procs : \E o \in orders :
        /\ req[p].pc = "create_mail_customer"
        /\ req[p].order = o
        /\ o.status = ORDERED
        /\ o.customerId = "c2" /\ o.mealId = 2 /\ o.quantity = 2

\* C14: an order that is in the store is in the store after every step of
\* createOrder, updateStatus and the meal operations.
C14_NeverDeleted ==
    [][\A o \in orders : \E n \in orders' : n.id = o.id]_vars

\* C15: every stored order carries the vendorId that its meal had in the
\* store when the order was inserted, which is the vendorId of the meal
\* row that is stored under the order's mealId.
C15_VendorSnapshot ==
    \A o \in orders :
        /\ o.vendorId = createdWith[o.id].mealVendorId
        /\ FindMeal(o.mealId) # NoMeal
        /\ o.vendorId = FindMeal(o.mealId).vendorId

\* an order created by a request for a meal of vendor v2, whose meal row
\* was updated after the order was written
C15_Witness ==
    \E o \in orders :
        /\ o.id > 1
        /\ o.vendorId = "v2"
        /\ last.op = "mealUpdate" /\ last.res = "ok"
        /\ last.arg.id = o.mealId
        /\ "vendorId" \in DOMAIN last.arg.body

\* a request finished in this step; last' holds it
FinishedNow == last.pc = "idle" /\ last'.pc = "done"

\* the request of slot p is at the write of a meal update or remove, as
\* the vendor who owns the stored meal
OwnerAtMealWrite(p, m) ==
    /\ req[p].pc \in {"meal_update", "meal_remove"}
    /\ req[p].arg.id = m.id
    /\ req[p].arg.userRole = VENDOR
    /\ req[p].arg.userId = m.vendorId

\* C16: a meal update or remove ends in NotFound for an id that is not
\* stored and in Forbidden for a stored meal unless the actor has role
\* VENDOR and the meal's vendorId, the meals table being unchanged in both
\* cases; a stored meal row changes or disappears only in the write of such
\* a request by its owning vendor.
C16_MealMutationAuth ==
    [][/\ (FinishedNow /\ last'.op \in {"mealUpdate", "mealRemove"})
           => LET r == last'
              IN  /\ r.meal = NoMeal
                       => r.res = "NotFound" /\ meals' = meals
                  /\ (/\ r.meal # NoMeal
                      /\ ~(/\ r.arg.userRole = VENDOR
                            /\ r.arg.userId = r.meal.vendorId))
                       => r.res = "Forbidden" /\ meals' = meals
                  /\ r.res \in {"NotFound", "Forbidden"}
                       => meals' = meals /\ orders' = orders
       /\ \A m \in meals :
              m \notin meals' => \E p \in Procs : OwnerAtMealWrite(p, m)]_vars

\* vendor v1's id under the role CUSTOMER asked to update meal 1 of vendor
\* v1 and got Forbidden
C16_Witness ==
    /\ last.op = "mealUpdate"
    /\ last.arg.userRole = CUSTOMER
    /\ last.meal # NoMeal
    /\ last.meal.vendorId = last.arg.userId
    /\ last.res = "Forbidden"
    /\ last.meal \in meals

\* C17: a meal row enters the store with the vendorId of the vendor whose
\* create wrote it, and no step changes the vendorId of a stored meal,
\* whatever the body of a meal update holds.
C17_MealVendorFrozen ==
    [][/\ \A m \in meals : \A n \in meals' :
             n.id = m.id => n.vendorId = m.vendorId
       /\ \A n \in meals' :
             (\A m \in meals : m.id # n.id)
                 => /\ FinishedNow
                    /\ last'.op = "mealCreate"
                    /\ last'.arg.vendorId = n.vendorId]_vars

\* an update whose body named another vendorId succeeded, and the stored
\* row has the owner it had
C17_Witness ==
    /\ last.op = "mealUpdate"
    /\ last.res = "ok"
    /\ "vendorId" \in DOMAIN last.arg.body
    /\ last.val[1] \in meals
    /\ last.val[1].vendorId = last.meal.vendorId
    /\ Str(<<last.val[1].vendorId>>) # last.arg.body.vendorId
    /\ last.val[1].price # last.meal.price

\* C18: updateStatus for an order id that is not stored ends in NotFound
\* for every role and every requested status, the role rules coming after
\* the lookup; it has written nothing and called no notification.
C18_NotFoundFirst ==
    /\ \A p \in Procs :
          req[p].op = "updateStatus" => req[p].order # NoOrder
    /\ (last.op = "updateStatus" /\ last.order = NoOrder)
          => /\ last.res = "NotFound"
             /\ last.trace = <<>>
             /\ last.val = <<>>

\* a customer asked for PROCESSING on an id that no order has and got
\* NotFound
C18_Witness ==
    /\ last.op = "updateStatus"
    /\ last.order = NoOrder
    /\ FindOrder(last.arg.id) = NoOrder
    /\ last.arg.userRole = CUSTOMER
    /\ last.arg.status = PROCESSING
    /\ last.res = "NotFound"

\* C19: an updateStatus, meal update or meal remove that ends in Forbidden
\* ends in the step of its lookup: that step leaves the orders and meals
\* tables as they are, and the request has written nothing and called no
\* notification.
C19_DeniedBeforeWrite ==
    [][(/\ FinishedNow
        /\ last'.op \in {"updateStatus", "mealUpdate", "mealRemove"}
        /\ last'.res = "Forbidden")
          => /\ orders' = orders
             /\ meals' = meals
             /\ last'.trace = <<>>
             /\ \E p \in Procs : req[p].pc = "idle" /\ req'[p].pc = "idle"
                                  /\ started' = started + 1]_vars

\* vendor v2 asked for PROCESSING on the ORDERED order of vendor v1, got
\* Forbidden, and the order is stored as it was read
C19_Witness ==
    /\ last.op = "updateStatus"
    /\ last.res = "Forbidden"
    /\ last.arg.userRole = VENDOR
    /\ last.arg.status = PROCESSING
    /\ last.order \in orders
    /\ last.order.status = ORDERED

\* C20: the insert of a create is not guarded by the other orders of the
\* meal: whenever a create that read its meal IN_STOCK takes its write step
\* and the meal row is still stored, the step inserts its order and goes on
\* to the invoices, and it leaves the meals table as it is (nothing is
\* reserved or decremented).
C20_NoReservation ==
    [][\A p \in Procs :
          (req[p].pc = "create_write" /\ req'[p] # req[p])
              => /\ meals' = meals
                 /\ req[p].meal.status = IN_STOCK
                 /\ FindMeal(req[p].arg.mealId) # NoMeal
                      => /\ req'[p].pc = "create_mail_customer"
                         /\ req'[p].order \in orders' \ orders
                         /\ InsertedBy(p, req'[p].order)
                         /\ orders' = orders \cup {req'[p].order}]_vars

\* two creates for the same meal both looked the meal up before either
\* wrote (they saw the same orders), both wrote their order, one has
\* returned it and the other is at its last invoice
C20_Witness ==
    \E p \in Procs :
        /\ last.op = "create" /\ last.res = "ok"
        /\ req[p].op = "create" /\ req[p].pc = "create_mail_vendor"
        /\ req[p].arg.mealId = last.arg.mealId
        /\ req[p].arg.seen = last.arg.seen
        /\ req[p].order # last.order
        /\ {req[p].order, last.order} \subseteq orders

\* the request that finished in this step failed after its checks: its
\* update found no row, or its last notification call threw
FailedPastChecks(r) ==
    /\ r.res = "InternalServerError"
    /\ \/ r.trace = <<>>
       \/ /\ IsSend(r.trace[Len(r.trace)])
          /\ r.trace[Len(r.trace)].result = "throw"

\* the step is the status write of slot p, for an order that is stored, and
\* it stores the requested status
StatusWriteStores(p) ==
    (/\ req[p].pc = "status_write"
     /\ req'[p] # req[p]
     /\ FindOrder(req[p].arg.id) # NoOrder)
        => \E n \in orders' :
              n.id = req[p].arg.id /\ n.status = req[p].arg.status

SnapshotsAreRead(r) ==
    \A i \in DOMAIN r.trace :
        IsSend(r.trace[i])
            => /\ r.trace[i].snap = r.order
               /\ r.trace[i].snap.status = r.order.status

\* C27: the notifications of updateStatus carry the order read by the
\* lookup before the status write, with the status it had then, not the
\* updated order that the operation returns.
C27_OldSnapshot ==
    /\ \A p \in Procs :
          req[p].op = "updateStatus" => SnapshotsAreRead(req[p])
    /\ last.op = "updateStatus"
          => /\ SnapshotsAreRead(last)
             /\ (last.res = "ok" /\ last.order.status # last.arg.status)
                   => \A e \in Range(Sends(last.trace)) :
                         e.snap # last.val[1]

\* an ORDERED order was moved to PROCESSING; the notification carried it as
\* ORDERED and the operation returned it as PROCESSING
C27_Witness ==
    /\ last.op = "updateStatus"
    /\ last.res = "ok"
    /\ last.arg.status = PROCESSING
    /\ Len(Sends(last.trace)) = 1
    /\ Sends(last.trace)[1].snap.status = ORDERED
    /\ last.val[1].status = PROCESSING

NotifiesBoth(r) ==
    \/ r.op = "create"
    \/ r.op = "updateStatus" /\ r.arg.status = DELIVERED

\* the notification calls of r so far: the customer's first, the vendor's
\* only after the customer's call returned, and none after a call threw
CustomerThenVendor(r) ==
    LET sent == Sends(r.trace)
    IN  /\ Len(sent) <= 2
        /\ Len(sent) >= 1 => sent[1].to = Email(r.order.customerId)
        /\ Len(sent) = 2 => /\ sent[2].to = Email(r.order.vendorId)
                            /\ sent[1].result # "throw"
        /\ (Len(sent) >= 1 /\ sent[Len(sent)].result = "throw")
              => r.pc = "done" /\ r.res = "InternalServerError"

\* the customer's notification of r threw
CustomerSendThrew(r) ==
    /\ Sends(r.trace) # <<>>
    /\ Sends(r.trace)[1].result = "throw"

\* C29: create and updateStatus to DELIVERED call the customer's
\* notification first and the vendor's after it has returned; when the
\* customer's call throws the request ends there, with no call for the
\* vendor, and the step leaves the orders table, which holds the write made
\* before, as it is.
C29_CustomerBeforeVendor ==
    [][/\ \A p \in Procs :
             NotifiesBoth(req'[p]) => CustomerThenVendor(req'[p])
       /\ NotifiesBoth(last') => CustomerThenVendor(last')
       /\ (FinishedNow /\ NotifiesBoth(last') /\ CustomerSendThrew(last'))
             => /\ Len(Sends(last'.trace)) = 1
                /\ IsWrite(last'.trace[1])
                /\ orders' = orders]_vars

\* an updateStatus to DELIVERED ended when the customer's notification
\* threw: the vendor was not notified and DELIVERED is stored
C29_Witness ==
    /\ last.op = "updateStatus"
    /\ last.arg.status = DELIVERED
    /\ last.res = "InternalServerError"
    /\ Len(Sends(last.trace)) = 1
    /\ Sends(last.trace)[1].to = Email(last.order.customerId)
    /\ Sends(last.trace)[1].result = "throw"
    /\ FindOrder(last.arg.id) # NoOrder
    /\ FindOrder(last.arg.id).status = DELIVERED
    /\ last.order.status # DELIVERED

\* C24: the insert of a create uses the meal as the lookup read it: when
\* the meal row is still stored the step inserts the order with the total
\* of the price read, whatever price and status the stored row has by then.
C24_ReadCheckThenWrite ==
    [][\A p \in Procs :
          (/\ req[p].pc = "create_write"
           /\ req'[p] # req[p]
           /\ FindMeal(req[p].arg.mealId) # NoMeal)
              => /\ req'[p].order \in orders'
                 /\ req'[p].order.status = ORDERED
                 /\ req'[p].order.totalPrice
                        = req[p].meal.price * req[p].arg.quantity]_vars

\* a create returned its order although the meal was stored OUT_OF_STOCK
\* when the order was inserted: a meal update came between its lookup
\* and its insert
C24_Witness ==
    /\ last.op = "create"
    /\ last.res = "ok"
    /\ last.meal.status = IN_STOCK
    /\ last.arg.stored.status = OUT_OF_STOCK
    /\ last.order.totalPrice = last.meal.price * last.arg.quantity

\* a create inserted its order with the total of the price it read, while
\* the meal was stored at another price
C24_WitnessPrice ==
    \E p \in Procs :
        /\ req[p].op = "create"
        /\ req[p].pc = "create_mail_customer"
        /\ req[p].arg.stored.price # req[p].meal.price
        /\ req[p].order \in orders

\* C25: every stored meal has a price above zero.
C25_PositivePrice ==
    \A m \in meals : m.price > 0

\* C26: every stored meal has one to three categories.
C26_OneToThreeCategories ==
    \A m \in meals : Len(m.categories) \in 1..3

\* the finished signUp had created its user
SignUpCreated(r) ==
    r.op = "signUp" /\ r.pc = "done"
    /\ \E i \in DOMAIN r.trace : IsWrite(r.trace[i])

\* C21: a signUp that has created its user returns that user and leaves it
\* stored, also when sending the welcome email threw.
C21_WelcomeFailureCaught ==
    SignUpCreated(last) =>
        /\ last.res = "ok"
        /\ Len(last.val) = 1
        /\ last.val[1] \in users
        /\ last.val[1].email = last.arg.email

\* a signUp whose welcome email threw has returned its stored user
C21_Witness ==
    /\ SignUpCreated(last)
    /\ \E i \in DOMAIN last.trace :
           IsSend(last.trace[i]) /\ last.trace[i].result = "throw"
    /\ last.res = "ok"
    /\ last.val[1] \in users

\* no two rows share an email or a username that is not NULL
UniqueUsers ==
    \A u1, u2 \in users :
        u1.id # u2.id =>
            /\ u1.email # u2.email
            /\ u1.username = u2.username => u1.username = NULL

\* a step adds at most one user, whose email and username no stored row held
CreatesOnlyUnheld ==
    users' # users =>
        \E row \in users' \ users :
            /\ users' = users \cup {row}
            /\ \A u \in users :
                   /\ u.email # row.email
                   /\ row.username # NULL => u.username # row.username

\* C30: after any interleaving of signUps no two stored users share an email
\* or a non-null username, and a signUp whose email or username a stored
\* user holds creates no user.
C30_UniqueUsers ==
    []UniqueUsers /\ [][CreatesOnlyUnheld]_vars

\* two signUps with the same email raced past the existence check: the
\* first created its user, the second was rejected by the unique index
C30_Witness ==
    /\ last.op = "signUp" /\ last.pc = "done"
    /\ last.res = "InternalServerError"
    /\ \E u \in users : u.id \in UserIds /\ u.email = last.arg.email

\* a signUp whose email was taken when it was checked got Conflict
C30_WitnessConflict ==
    /\ last.op = "signUp" /\ last.pc = "done"
    /\ last.res = "Conflict"
    /\ \E u \in users : u.id \in UserIds /\ u.username = last.arg.username
                        /\ u.username = "neo"

====
